---- MODULE Spec2Model ----
(***************************************************************************)
(* Model of src/handler.py: TanglinTennisCourtHandler.                     *)
(*                                                                         *)
(* The handler drives a browser through login, navigation, a wait until    *)
(* the booking window opens, filter selection and slot attempts.  The      *)
(* browser and the web site are the environment: what a page shows and     *)
(* whether an awaited element appears are chosen nondeterministically.     *)
(* Every interaction with the browser is appended to log.                  *)
(***************************************************************************)
EXTENDS Integers, Sequences, FiniteSets, TLC

VARIABLES
    pc,            \* control location inside make_reservations / _wait
    runs,          \* number of make_reservations calls started on this handler
    is_logged_in,  \* self._is_logged_in
    req,           \* arguments of the running make_reservations call
    log,           \* browser interactions of the running call, in order
    error,         \* the exception that left make_reservations, if any
    now,           \* _wait: local now
    till,          \* _wait: argument till, parsed
    opening_time,  \* _wait: local opening_time
    dropdowns,     \* _set_options: texts of the elements found at line 121
    k,             \* _set_options: position in dropdowns
    i,             \* make_reservations: position in times
    time_text,     \* _reserve_time: local time_text
    elements,      \* _reserve_time: local elements (the matching slot boxes)
    j,             \* _reserve_time: position in elements
    failures,      \* make_reservations: local failures
    output         \* lines printed by the running call

vars == <<pc, runs, is_logged_in, req, log, error, now, till, opening_time,
          dropdowns, k, i, time_text, elements, j, failures, output>>

(***************************************************************************)
(* Bounds of the model.                                                    *)
(***************************************************************************)
MaxRuns == 2
MaxTimes == 2
MaxSlots == 2
MaxOversleep == 1

\* Candidate hours a request may list.
CandidateHours == {0, 1, 7, 12, 13, 23}

RECURSIVE SeqsUpTo(_, _)
SeqsUpTo(S, n) ==
    IF n = 0 THEN {<<>>}
    ELSE LET shorter == SeqsUpTo(S, n - 1)
         IN  shorter \cup {Append(s, x) : s \in {t \in shorter : Len(t) = n - 1}, x \in S}

(***************************************************************************)
(* Exceptions.                                                             *)
(***************************************************************************)
NoError == [type |-> "none", msg |-> ""]

Raise(type, msg) == [type |-> type, msg |-> msg]

\* _check_element: waits for the element; on timeout raises the
\* TimeoutException, with err_post_message appended when it is not blank.
CheckElement(present, err_post_message) ==
    IF present THEN NoError
    ELSE Raise("TimeoutException", err_post_message)

Ev(op, n) == [op |-> op, n |-> n]

(***************************************************************************)
(* Time.  A timestamp is whole seconds since midnight of day 0 plus a      *)
(* microsecond part.                                                       *)
(***************************************************************************)
SecondsPerDay == 24 * 60 * 60

NoTime == [s |-> -1, us |-> 0]
NoTill == [hour |-> -1, minute |-> 0, second |-> 0]

Stamp(day, h, m, s, us) == [s |-> day * SecondsPerDay + h * 3600 + m * 60 + s, us |-> us]

HourOf(t)   == (t.s % SecondsPerDay) \div 3600
MinuteOf(t) == (t.s % 3600) \div 60
SecondOf(t) == t.s % 60
FloorDay(t) == t.s - (t.s % SecondsPerDay)

Before(a, b) == a.s < b.s \/ (a.s = b.s /\ a.us < b.us)

\* line 91: the test that sends the opening time to the following day
PastTarget(n, tl) ==
    /\ HourOf(n) >= tl.hour
    /\ MinuteOf(n) >= tl.minute
    /\ SecondOf(n) >= tl.second
    /\ n.us > 0

\* lines 91-94
OpeningTime(n, tl) ==
    IF PastTarget(n, tl)
    THEN [s |-> FloorDay(n) + SecondsPerDay + tl.hour * 3600 + tl.minute * 60 + tl.second, us |-> 0]
    ELSE [s |-> FloorDay(n) + tl.hour * 3600 + tl.minute * 60 + tl.second, us |-> 0]

\* line 98: np.ceil((opening_time - now).total_seconds()); opening_time has
\* no microseconds, so the ceiling is the difference of the whole seconds.
SleepDuration(n, o) == o.s - n.s

\* Microsecond parts the clock is read at.
Micros == {0, 500000}

\* the argument make_reservations passes at line 32
TillDefault == [hour |-> 6, minute |-> 59, second |-> 56]

\* Clock readings at the entry of _wait (day 0).
NowChoices ==
    {Stamp(0, h, m, s, us) : h \in {0, 6, 7, 23}, m \in {0, 30, 59}, s \in {0, 56, 59}, us \in Micros}

TillChoices ==
    {[hour |-> h, minute |-> m, second |-> s] : h \in {6, 7}, m \in {0, 59}, s \in {0, 56}}

(***************************************************************************)
(* Labels.                                                                 *)
(***************************************************************************)
Indoor  == "Tennis Courts - Indoor Tennis Court."
Outdoor == "Tennis Courts - Outdoor Tennis Court."
SquashSingles == "Squash Courts - Singles Squash Courts"
SquashDoubles == "Squash Courts - Doubles Squash Courts"

\* line 123-124: the texts the first case of the match accepts
CourtLabels == {Outdoor, Indoor, SquashSingles, SquashDoubles}
\* line 139
DurationLabels == {"1 hour", "2 hours"}

\* The texts an option of a dropdown may carry.
OptionLabels == {Outdoor, Indoor, "1 hour", "2 hours"}

\* What find_elements may return for the options, line 131 and line 147:
\* the options in the order the page lists them, any of them missing.
OptionLists ==
    {a \o b \o c \o d : a \in {<<>>, <<Outdoor>>}, b \in {<<>>, <<Indoor>>},
                        c \in {<<>>, <<"1 hour">>}, d \in {<<>>, <<"2 hours">>}}

\* What find_elements may return for the dropdown displays, line 121: the
\* court type display, the duration display and an unrelated one, any of
\* them missing.
DropdownLists ==
    {c \o d \o o : c \in {<<>>, <<Outdoor>>, <<Indoor>>, <<SquashSingles>>},
                   d \in {<<>>, <<"1 hour">>, <<"2 hours">>},
                   o \in {<<>>, <<"Facility">>}}

MonthAbbr ==
    <<"Jan", "Feb", "Mar", "Apr", "May", "Jun", "Jul", "Aug", "Sep", "Oct", "Nov", "Dec">>

\* line 110: date.strftime('%b %#d'), the month's abbreviation and the day
\* of the month without padding
DateText(date) == [mon |-> MonthAbbr[date.month], day |-> date.day]

RequestDates == {[month |-> 6, day |-> 1]}
Jun1 == [mon |-> "Jun", day |-> 1]
Jun2 == [mon |-> "Jun", day |-> 2]

\* What find_elements may return for the date boxes, line 111.
DateLists == {<<>>, <<Jun2>>, <<Jun1>>, <<Jun1, Jun2>>, <<Jun2, Jun1>>}

\* line 141
DurationText(duration) ==
    CASE duration = 1 -> "1 hour"
      [] duration = 2 -> "2 hours"
      [] OTHER -> "other"

\* the indoors flag is not looked at
IsIndoorCourt(indoors, text) == text = Indoor

\* lines 126 and 132-133: the text is the requested court type
IsRequestedCourt(indoors, text) ==
    \/ (indoors /\ text = Indoor)
    \/ (~indoors /\ text = Outdoor)

\* lines 159-164
TimeText(time) ==
    IF time < 12 THEN [hh |-> time, mer |-> "AM"]
    ELSE IF time = 12 THEN [hh |-> 12, mer |-> "PM"]
    ELSE [hh |-> time % 12, mer |-> "PM"]

\* The label the site's schedule table shows on the slot box of an hour:
\* 12-hour AM/PM text, midnight and noon special-cased.
SiteLabel(hour) ==
    IF hour = 0 THEN [hh |-> 12, mer |-> "AM"]
    ELSE IF hour < 12 THEN [hh |-> hour, mer |-> "AM"]
    ELSE IF hour = 12 THEN [hh |-> 12, mer |-> "PM"]
    ELSE [hh |-> hour - 12, mer |-> "PM"]

(***************************************************************************)
(* Printed text, as a sequence of pieces.                                  *)
(***************************************************************************)
Digit(d) == <<"0", "1", "2", "3", "4", "5", "6", "7", "8", "9">>[d + 1]

\* the format {t:02d} of an hour
Fmt02(t) == <<Digit(t \div 10), Digit(t % 10)>>

\* line 40: the string has no f prefix, so it is printed as written
SuccessText(t) ==
    <<"Made a reservation at time {t:02d}:00. Check your email for more information">>

RECURSIVE JoinFailures(_)
JoinFailures(fs) ==
    IF fs = <<>> THEN <<>>
    ELSE <<"  - ">> \o Fmt02(Head(fs)) \o <<":00">>
         \o (IF Tail(fs) = <<>> THEN <<>> ELSE <<"\n">> \o JoinFailures(Tail(fs)))

\* line 47
FailureText(fs) == <<"Did not manage to book times: \n">> \o JoinFailures(fs)

(***************************************************************************)
(* State after construction (lines 14-19) and blank locals.                *)
(***************************************************************************)
NoReq == [date |-> [month |-> 0, day |-> 0], indoor |-> FALSE, duration |-> 0, times |-> <<>>]
NoText == [hh |-> -1, mer |-> ""]

Durations == {1, 2, 3}

\* The times lists of the requests a whole run is followed for.
RunTimes == {<<>>, <<7>>, <<0, 12>>, <<7, 13>>}

Requests ==
    [date : RequestDates, indoor : BOOLEAN, duration : Durations, times : RunTimes]

Locals ==
    /\ now = NoTime
    /\ till = NoTill
    /\ opening_time = NoTime
    /\ dropdowns = <<>>
    /\ k = 0
    /\ i = 0
    /\ time_text = NoText
    /\ elements = <<>>
    /\ j = 0
    /\ failures = <<>>

Init ==
    /\ pc = "idle"
    /\ runs = 0
    /\ is_logged_in = FALSE
    /\ req = NoReq
    /\ log = <<>>
    /\ error = NoError
    /\ output = <<>>
    /\ Locals

waitVars == <<now, till, opening_time>>
optVars == <<dropdowns, k>>
loopVars == <<i, time_text, elements, j, failures, output>>

(***************************************************************************)
(* make_reservations, lines 27-30: the call, the assertion on duration.    *)
(***************************************************************************)
MakeReservations ==
    /\ pc = "idle"
    /\ runs < MaxRuns
    /\ runs' = runs + 1
    /\ \E r \in Requests :
        /\ req' = r
        /\ IF r.duration \in {1, 2}
           THEN pc' = "login" /\ error' = NoError
           ELSE pc' = "raised"
                /\ error' = Raise("AssertionError", "duration can only be 1 or 2 hours")
    /\ log' = <<>>
    /\ UNCHANGED <<is_logged_in, waitVars, optVars, loopVars>>

(***************************************************************************)
(* Errors of the set-up calls.  Lines 30-33 stand outside every try, so    *)
(* an exception raised there leaves make_reservations.                     *)
(***************************************************************************)
FatalTimeoutsOnly(err) == err # NoError /\ err.type = "TimeoutException"

Fatal(err) == err # NoError

(***************************************************************************)
(* _login, lines 49-74.                                                    *)
(***************************************************************************)
\* lines 54-69: the interactions up to the click on the login button
LoginSteps ==
    <<Ev("get_login", 0), Ev("type_username", 0), Ev("type_password", 0), Ev("click_login", 0)>>

\* _is_logged_in is set before the signed-in element is waited for
LoginBodyFlagEarly(form_present, signed_in) ==
    LET e1 == CheckElement(form_present, "Timeout encountered while loading login page")
        e2 == CheckElement(signed_in, "Could not identify div that ensures we are logged in")
    IN  IF e1 # NoError
        THEN [add |-> <<Ev("get_login", 0)>>, err |-> e1, flag |-> FALSE]
        ELSE IF e2 # NoError
        THEN [add |-> LoginSteps, err |-> e2, flag |-> TRUE]
        ELSE [add |-> Append(LoginSteps, Ev("signed_in", 0)), err |-> NoError, flag |-> TRUE]

\* lines 54-74 for a session that is not logged in: what the browser is
\* asked to do, the exception raised, and _is_logged_in afterwards
LoginBody(form_present, signed_in) ==
    LET e1 == CheckElement(form_present, "Timeout encountered while loading login page")
        e2 == CheckElement(signed_in, "Could not identify div that ensures we are logged in")
    IN  IF e1 # NoError
        THEN [add |-> <<Ev("get_login", 0)>>, err |-> e1, flag |-> FALSE]
        ELSE IF e2 # NoError
        THEN [add |-> LoginSteps, err |-> e2, flag |-> FALSE]
        ELSE [add |-> Append(LoginSteps, Ev("signed_in", 0)), err |-> NoError, flag |-> TRUE]

Login ==
    /\ pc = "login"
    /\ IF is_logged_in
       THEN /\ pc' = "goto"
            /\ UNCHANGED <<is_logged_in, log, error>>
       ELSE \E form_present \in BOOLEAN :
            \E signed_in \in (IF form_present THEN BOOLEAN ELSE {FALSE}) :
            LET r == LoginBody(form_present, signed_in)
            IN  /\ log' = log \o r.add
                /\ is_logged_in' = r.flag
                /\ IF Fatal(r.err)
                   THEN pc' = "raised" /\ error' = r.err
                   ELSE pc' = "goto" /\ UNCHANGED error
    /\ UNCHANGED <<runs, req, waitVars, optVars, loopVars>>

(***************************************************************************)
(* _go_to_cms_page_and_wait, lines 76-82, and _wait, lines 85-100.         *)
(***************************************************************************)
GoToCmsPage ==
    /\ pc = "goto"
    /\ log' = Append(log, Ev("get_cms", 0))
    /\ \E loaded \in BOOLEAN :
        LET e == CheckElement(loaded, "Could not load Tennis booking table page")
        IN  IF Fatal(e)
            THEN pc' = "raised" /\ error' = e /\ UNCHANGED till
            ELSE pc' = "wait" /\ till' = TillDefault /\ UNCHANGED error
    /\ UNCHANGED <<runs, is_logged_in, req, now, opening_time, optVars, loopVars>>

\* lines 88-94
WaitCompute ==
    /\ pc = "wait"
    /\ \E n \in NowChoices :
        /\ now' = n
        /\ opening_time' = OpeningTime(n, till)
    /\ pc' = "sleep"
    /\ UNCHANGED <<runs, is_logged_in, req, log, error, till, optVars, loopVars>>

\* lines 96-100: one turn of the loop; time.sleep returns no sooner than asked
WaitSleep ==
    /\ pc = "sleep"
    /\ Before(now, opening_time)
    /\ \E extra \in 0..MaxOversleep, u \in Micros :
        /\ extra = 0 => u >= now.us
        /\ now' = [s |-> now.s + SleepDuration(now, opening_time) + extra, us |-> u]
    /\ UNCHANGED <<pc, runs, is_logged_in, req, log, error, till, opening_time, optVars, loopVars>>

\* line 96, the loop's exit: _wait returns
WaitReturn ==
    /\ pc = "sleep"
    /\ ~Before(now, opening_time)
    /\ pc' = "waited"
    /\ now' = NoTime
    /\ till' = NoTill
    /\ opening_time' = NoTime
    /\ UNCHANGED <<runs, is_logged_in, req, log, error, optVars, loopVars>>

(***************************************************************************)
(* _set_options, lines 102-156.                                            *)
(***************************************************************************)
MinOf(S) == CHOOSE x \in S : \A y \in S : x <= y

\* the first position of seq whose element is in S, 0 when there is none
FirstIn(seq, S) ==
    LET hits == {n \in 1..Len(seq) : seq[n] \in S}
    IN  IF hits = {} THEN 0 ELSE MinOf(hits)

\* line 106
CheckLoadOkay(loaded) == CheckElement(loaded, "Could not load schedule table")

\* lines 110-117: the first date box with the requested text is clicked
DateBody(dates, date, loaded) ==
    LET n == FirstIn(dates, {DateText(date)})
    IN  IF n = 0
        THEN [add |-> <<>>, err |-> Raise("RuntimeError", "Could not find date in Tennis loading page")]
        ELSE [add |-> <<Ev("click_date", dates[n].day)>>, err |-> CheckLoadOkay(loaded)]

\* lines 110-121: the date boxes, then the dropdown displays are fetched
SelectDate ==
    /\ pc = "waited"
    /\ \E dates \in DateLists, loaded \in BOOLEAN :
        LET r == DateBody(dates, req.date, loaded)
        IN  /\ log' = log \o r.add
            /\ IF Fatal(r.err)
               THEN /\ pc' = "raised"
                    /\ error' = r.err
                    /\ UNCHANGED optVars
               ELSE /\ pc' = "dropdowns"
                    /\ \E found \in DropdownLists : dropdowns' = found
                    /\ k' = 1
                    /\ UNCHANGED error
    /\ UNCHANGED <<runs, is_logged_in, req, waitVars, loopVars>>

\* lines 138 and 154: the message of the error for an option that is not listed
NotDetected(kind, indoors, duration) ==
    IF kind = "court"
    THEN (IF indoors THEN "Could not detect Indoors option" ELSE "Could not detect Outdoors option")
    ELSE (IF duration > 1 THEN "Could not detect 2 hours option" ELSE "Could not detect 1 hour option")

\* lines 129-138 and 145-154: open the dropdown at position n and click the
\* first option whose text is in wanted
OpenAndPick(n, kind, indoors, duration, wanted, opened, opts, loaded) ==
    LET open_err == CheckElement(opened,
                        IF kind = "court" THEN "Could not open court type selector" ELSE "")
        m == FirstIn(opts, wanted)
    IN  IF open_err # NoError
        THEN [add |-> <<Ev("click_dropdown", n)>>, err |-> open_err]
        ELSE IF m = 0
        THEN [add |-> <<Ev("click_dropdown", n)>>,
              err |-> Raise("RuntimeError", NotDetected(kind, indoors, duration))]
        ELSE [add |-> <<Ev("click_dropdown", n), Ev("click_option", n)>>,
              err |-> CheckLoadOkay(loaded)]

\* lines 122-156: the body of the loop for the dropdown display with text e
DropdownBody(n, e, indoors, duration, opened, opts, loaded) ==
    IF e \in CourtLabels
    THEN IF IsRequestedCourt(indoors, e)
         THEN [add |-> <<>>, err |-> NoError]
         ELSE OpenAndPick(n, "court", indoors, duration,
                          {t \in OptionLabels : IsRequestedCourt(indoors, t)},
                          opened, opts, loaded)
    ELSE IF e \in DurationLabels
    THEN IF e = DurationText(duration)
         THEN [add |-> <<>>, err |-> NoError]
         ELSE OpenAndPick(n, "duration", indoors, duration, {DurationText(duration)},
                          opened, opts, loaded)
    ELSE [add |-> <<>>, err |-> NoError]

SetDropdown ==
    /\ pc = "dropdowns"
    /\ k <= Len(dropdowns)
    /\ \E opened \in BOOLEAN :
       \E opts \in (IF opened THEN OptionLists ELSE {<<>>}) :
       \E loaded \in (IF opts # <<>> THEN BOOLEAN ELSE {TRUE}) :
        LET r == DropdownBody(k, dropdowns[k], req.indoor, req.duration, opened, opts, loaded)
        IN  /\ log' = log \o r.add
            /\ IF Fatal(r.err)
               THEN pc' = "raised" /\ error' = r.err /\ UNCHANGED optVars
               ELSE k' = k + 1 /\ UNCHANGED <<pc, error, dropdowns>>
    /\ UNCHANGED <<runs, is_logged_in, req, waitVars, loopVars>>

\* _set_options returns; line 35
OptionsReturn ==
    /\ pc = "dropdowns"
    /\ k > Len(dropdowns)
    /\ pc' = "loop"
    /\ dropdowns' = <<>>
    /\ k' = 0
    /\ i' = 1
    /\ failures' = <<>>
    /\ UNCHANGED <<runs, is_logged_in, req, log, error, waitVars, time_text, elements, j, output>>

(***************************************************************************)
(* The loop over times, lines 36-47, and _reserve_time, lines 158-186.     *)
(***************************************************************************)
\* line 168: the slot boxes whose text is time_text; a box is known by the
\* hour it stands for
Matching(slots, text) == SelectSeq(slots, LAMBDA h : SiteLabel(h) = text)

\* Slot boxes the schedule table may show while hour t is looked for.
SlotHours(t) == {t, (t + 1) % 24}

\* lines 36-38 and 158-168: the next hour; find_elements may raise, which
\* the handler at line 43 catches
ReserveTime ==
    /\ pc = "loop"
    /\ i <= Len(req.times)
    /\ time_text' = TimeText(req.times[i])
    /\ \/ /\ failures' = Append(failures, req.times[i])
          /\ i' = i + 1
          /\ UNCHANGED <<pc, elements, j>>
       \/ /\ \E slots \in SeqsUpTo(SlotHours(req.times[i]), MaxSlots) :
                elements' = Matching(slots, TimeText(req.times[i]))
          /\ j' = 1
          /\ pc' = "elem"
          /\ UNCHANGED <<i, failures>>
    /\ UNCHANGED <<runs, is_logged_in, req, log, error, waitVars, optVars, output>>

\* How far one attempt on a slot box gets.
Outcomes == {"click_fails", "no_book_now", "book_click_fails", "no_banner", "booked"}

\* lines 172-178: what one attempt does to the browser before it ends
AttemptSteps(h, outcome) ==
    CASE outcome = "click_fails"      -> <<Ev("click_slot", h)>>
      [] outcome = "no_book_now"      -> <<Ev("click_slot", h)>>
      [] outcome = "book_click_fails" -> <<Ev("click_slot", h), Ev("click_book", h)>>
      [] outcome = "no_banner"        -> <<Ev("click_slot", h), Ev("click_book", h)>>
      [] outcome = "booked"           ->
            <<Ev("click_slot", h), Ev("click_book", h), Ev("banner", h)>>

\* the attempt goes on to the next box although the banner was reached
AttemptNeverSucceeds(outcome) == FALSE

\* line 181 against lines 182-184: the attempt returns True
AttemptSucceeds(outcome) == outcome = "booked"

\* an except clause that catches the timeouts of _check_element only
SwallowsTimeoutsOnly(outcome) == outcome \in {"no_book_now", "no_banner"}

\* lines 182-184: the bare except catches whatever ended the attempt
Swallowed(outcome) == TRUE

\* lines 170-184, and lines 39-41 when the attempt returns True; an
\* exception that line 182 let through would reach the handler at line 43
AttemptElement ==
    /\ pc = "elem"
    /\ j <= Len(elements)
    /\ \E outcome \in Outcomes :
        /\ log' = log \o AttemptSteps(elements[j], outcome)
        /\ IF AttemptSucceeds(outcome)
           THEN /\ output' = Append(output, SuccessText(req.times[i]))
                /\ pc' = "done"
                /\ UNCHANGED <<i, elements, j, failures>>
           ELSE IF Swallowed(outcome)
           THEN /\ j' = j + 1
                /\ UNCHANGED <<pc, output, i, elements, failures>>
           ELSE /\ failures' = Append(failures, req.times[i])
                /\ i' = i + 1
                /\ pc' = "loop"
                /\ elements' = <<>>
                /\ j' = 0
                /\ UNCHANGED output
    /\ UNCHANGED <<runs, is_logged_in, req, error, waitVars, optVars, time_text>>

\* line 186: no element is left, _reserve_time returns False
ReserveExhausted ==
    /\ pc = "elem"
    /\ j > Len(elements)
    /\ pc' = "loop"
    /\ i' = i + 1
    /\ elements' = <<>>
    /\ j' = 0
    /\ UNCHANGED <<runs, is_logged_in, req, log, error, waitVars, optVars, time_text, failures, output>>

\* lines 46-47
ReportFailures ==
    /\ pc = "loop"
    /\ i > Len(req.times)
    /\ output' = IF Len(failures) > 0 THEN Append(output, FailureText(failures)) ELSE output
    /\ pc' = "done"
    /\ UNCHANGED <<runs, is_logged_in, req, log, error, waitVars, optVars, i, time_text, elements, j, failures>>

\* make_reservations has returned or raised: its locals are gone
Finish ==
    /\ pc \in {"done", "raised"}
    /\ pc' = "idle"
    /\ req' = NoReq
    /\ log' = <<>>
    /\ error' = NoError
    /\ output' = <<>>
    /\ now' = NoTime
    /\ till' = NoTill
    /\ opening_time' = NoTime
    /\ dropdowns' = <<>>
    /\ k' = 0
    /\ i' = 0
    /\ time_text' = NoText
    /\ elements' = <<>>
    /\ j' = 0
    /\ failures' = <<>>
    /\ UNCHANGED <<runs, is_logged_in>>

Next ==
    \/ MakeReservations
    \/ Login
    \/ GoToCmsPage
    \/ WaitCompute
    \/ WaitSleep
    \/ WaitReturn
    \/ SelectDate
    \/ SetDropdown
    \/ OptionsReturn
    \/ ReserveTime
    \/ AttemptElement
    \/ ReserveExhausted
    \/ ReportFailures
    \/ Finish

Spec == Init /\ [][Next]_vars

(***************************************************************************)
(* The loop over times from line 35 on, for every times list: the state    *)
(* of a first call that logged in and found the date and both filters as   *)
(* requested.                                                              *)
(***************************************************************************)
InitLoop ==
    /\ pc = "loop"
    /\ runs = 1
    /\ is_logged_in = TRUE
    /\ \E ts \in SeqsUpTo(CandidateHours, MaxTimes) :
          req = [date |-> [month |-> 6, day |-> 1], indoor |-> FALSE, duration |-> 2, times |-> ts]
    /\ log = LoginSteps \o <<Ev("signed_in", 0), Ev("get_cms", 0), Ev("click_date", 1)>>
    /\ error = NoError
    /\ output = <<>>
    /\ now = NoTime
    /\ till = NoTill
    /\ opening_time = NoTime
    /\ dropdowns = <<>>
    /\ k = 0
    /\ i = 1
    /\ time_text = NoText
    /\ elements = <<>>
    /\ j = 0
    /\ failures = <<>>

NextLoop ==
    \/ ReserveTime
    \/ AttemptElement
    \/ ReserveExhausted
    \/ ReportFailures

SpecLoop == InitLoop /\ [][NextLoop]_vars

(***************************************************************************)
(* _wait called on its own, with any target time.                          *)
(***************************************************************************)
InitWait ==
    /\ pc = "wait"
    /\ runs = 0
    /\ is_logged_in = FALSE
    /\ req = NoReq
    /\ log = <<>>
    /\ error = NoError
    /\ output = <<>>
    /\ now = NoTime
    /\ till \in TillChoices
    /\ opening_time = NoTime
    /\ dropdowns = <<>>
    /\ k = 0
    /\ i = 0
    /\ time_text = NoText
    /\ elements = <<>>
    /\ j = 0
    /\ failures = <<>>

NextWait ==
    \/ WaitCompute
    \/ WaitSleep
    \/ WaitReturn

SpecWait == InitWait /\ [][NextWait]_vars

(***************************************************************************)
(* Properties.                                                             *)
(***************************************************************************)
LogOps == {log[n].op : n \in 1..Len(log)}
SlotOps == {"click_slot", "click_book", "banner"}

\* the hours of the slot boxes clicked so far, in the order of the clicks
ClickedHours == [n \in 1..Len(SelectSeq(log, LAMBDA e : e.op = "click_slot")) |->
                    SelectSeq(log, LAMBDA e : e.op = "click_slot")[n].n]

\* att is ts with some hours left out and some repeated in place
RECURSIVE InOrder(_, _)
InOrder(att, ts) ==
    IF att = <<>> THEN TRUE
    ELSE IF ts = <<>> THEN FALSE
    ELSE IF Head(att) = Head(ts) THEN InOrder(Tail(att), ts)
    ELSE InOrder(att, Tail(ts))

Booked == "banner" \in LogOps

\* C1: the hours are attempted in the order of the times list, one after
\* the other, and the run stops at the first attempt that reaches the
\* success banner: the banner is the last thing the browser did, the hour
\* booked is the one the loop stands at, and a run that ends without a
\* booking has gone through every hour.
C1_InOrderStopAtFirstBooked ==
    pc \in {"loop", "elem", "done"} =>
        /\ i >= 1 /\ i <= Len(req.times) + 1
        /\ InOrder(ClickedHours, SubSeq(req.times, 1, IF i > Len(req.times) THEN Len(req.times) ELSE i))
        /\ \A n \in 1..Len(log) :
              log[n].op = "banner" =>
                  /\ n = Len(log)
                  /\ pc = "done"
                  /\ i <= Len(req.times)
                  /\ log[n].n = req.times[i]
        /\ pc = "elem" => i <= Len(req.times) /\ time_text = TimeText(req.times[i])
        /\ (pc = "done" /\ ~Booked) => i = Len(req.times) + 1

\* C1 witness: the first of two hours was booked at its second slot box,
\* after the first box failed; the second hour was never attempted.
C1_Witness ==
    /\ pc = "done"
    /\ Booked
    /\ i = 1
    /\ Len(req.times) = 2
    /\ Len(ClickedHours) = 2

\* C2: a run in which no hour was booked ends with every hour of
\* candidate_times recorded as failed and printed in the failure list.
C2_AllFailedHoursListed ==
    (pc = "done" /\ ~Booked) =>
        /\ failures = req.times
        /\ req.times # <<>> => output = <<FailureText(req.times)>>

\* the time of day of a timestamp and of a target, in whole seconds
TimeOfDay(t) == t.s % SecondsPerDay
TargetOfDay(tl) == tl.hour * 3600 + tl.minute * 60 + tl.second

TargetEarlier(n, tl) ==
    \/ TargetOfDay(tl) < TimeOfDay(n)
    \/ (TargetOfDay(tl) = TimeOfDay(n) /\ n.us > 0)

TargetLater(n, tl) == TargetOfDay(tl) > TimeOfDay(n)

\* C3: when _wait has computed opening_time, a target earlier than the
\* current time of day gives that time on the following day, a target later
\* today gives that time today, and opening_time is not before now.
C3_NextOccurrence ==
    [][(pc = "wait" /\ pc' = "sleep") =>
          /\ TargetEarlier(now', till) =>
                opening_time' = [s |-> FloorDay(now') + SecondsPerDay + TargetOfDay(till), us |-> 0]
          /\ TargetLater(now', till) =>
                opening_time' = [s |-> FloorDay(now') + TargetOfDay(till), us |-> 0]
          /\ ~Before(opening_time', now')]_vars

\* the line contains the hour as two digits
ContainsHour(line, t) ==
    \E n \in 1..(Len(line) - 1) : line[n] = Digit(t \div 10) /\ line[n + 1] = Digit(t % 10)

\* C4: after a booking at hour t the printed text reports the success and
\* contains t as a two-digit hour followed by :00.
C4_SuccessTextHasHour ==
    (pc = "done" /\ Booked) =>
        \E n \in 1..Len(output) : ContainsHour(output[n], req.times[i])

\* C5: the label slot boxes are matched against is the 12-hour AM/PM text
\* of the hour, midnight and noon special-cased: 0 gives 12:00 AM, 1..11
\* give h:00 AM, 12 gives 12:00 PM, 13..23 give (h-12):00 PM.
C5_TwelveHourLabel ==
    pc = "elem" =>
        LET h == req.times[i]
        IN  time_text = (IF h = 0 THEN [hh |-> 12, mer |-> "AM"]
                         ELSE IF h <= 11 THEN [hh |-> h, mer |-> "AM"]
                         ELSE IF h = 12 THEN [hh |-> 12, mer |-> "PM"]
                         ELSE [hh |-> h - 12, mer |-> "PM"])

RequestedCourt == IF req.indoor THEN Indoor ELSE Outdoor
RequestedDuration == IF req.duration = 1 THEN "1 hour" ELSE "2 hours"

\* the filter whose requested text is wanted was matched on the page: a
\* dropdown already displayed it, or an option carrying it was clicked
FilterMatched(wanted, kind) ==
    \E n \in 1..Len(dropdowns) :
        /\ dropdowns[n] \in kind
        /\ (dropdowns[n] = wanted \/ Ev("click_option", n) \in {log[m] : m \in 1..Len(log)})

\* C6: _set_options returns normally only if each filter's requested value
\* was matched by an element of the page; otherwise it fails.
C6_UnmatchedFilterFails ==
    [][(pc = "dropdowns" /\ pc' = "loop") =>
          /\ FilterMatched(RequestedCourt, CourtLabels)
          /\ FilterMatched(RequestedDuration, DurationLabels)]_vars

\* C7: an attempt on a slot box that does not reach the success banner
\* never ends the run: the next matching box of the same hour is up next,
\* and when the boxes of the hour are used up the loop goes on to the next
\* hour; nothing is raised out of the loop over times.
C7_AttemptErrorsSwallowed ==
    [][/\ (pc = "elem" /\ j <= Len(elements) /\ ~Booked') =>
              /\ pc' = "elem"
              /\ j' = j + 1
              /\ elements' = elements
              /\ i' = i
              /\ failures' = failures
              /\ error' = NoError
       /\ (pc = "elem" /\ j > Len(elements)) =>
              /\ pc' = "loop"
              /\ i' = i + 1
              /\ error' = NoError
       /\ (pc \in {"loop", "elem"}) => pc' \in {"loop", "elem", "done"}]_vars

\* C7 witness: the first box of the second hour has failed after a click on
\* "Book Now", the hour's second box is up next, and the first hour's box
\* had failed as well.
C7_Witness ==
    /\ pc = "elem"
    /\ i = 2
    /\ j = 2
    /\ Len(elements) = 2
    /\ Len(ClickedHours) = 2
    /\ ClickedHours[1] = req.times[1]
    /\ log[Len(log)].op = "click_book"

\* the steps make_reservations can take from one place to the next
PhaseSteps ==
    {<<"idle", "login">>, <<"idle", "raised">>,
     <<"login", "goto">>, <<"login", "raised">>,
     <<"goto", "wait">>, <<"goto", "raised">>,
     <<"wait", "sleep">>, <<"sleep", "waited">>,
     <<"waited", "dropdowns">>, <<"waited", "raised">>,
     <<"dropdowns", "loop">>, <<"dropdowns", "raised">>,
     <<"loop", "elem">>, <<"loop", "done">>,
     <<"elem", "loop">>, <<"elem", "done">>,
     <<"done", "idle">>, <<"raised", "idle">>}

\* the phase a browser interaction belongs to
PhaseOf(op) ==
    CASE op \in {"get_login", "type_username", "type_password", "click_login", "signed_in"} -> 1
      [] op = "get_cms" -> 2
      [] op \in {"click_date", "click_dropdown", "click_option"} -> 3
      [] op \in SlotOps -> 4

\* C8: the phases run in the order login, page load and wait, filters,
\* slot attempts; a run that ended with an error raised by login, page load
\* or filter set-up has clicked no slot box and no "Book Now" control, and
\* slot boxes are clicked only in a logged-in session whose booking page
\* was loaded and whose date was selected.
C8_PhasesInOrder ==
    [][/\ pc' # pc => <<pc, pc'>> \in PhaseSteps
       /\ \A m, n \in 1..Len(log') : m < n => PhaseOf(log'[m].op) <= PhaseOf(log'[n].op)
       /\ pc' = "raised" => (error' # NoError /\ LogOps' \cap SlotOps = {})
       /\ (pc' \in {"loop", "elem"} \/ LogOps' \cap SlotOps # {}) =>
              /\ is_logged_in'
              /\ {"get_cms", "click_date"} \subseteq LogOps'
              /\ error' = NoError]_vars

\* C8 witness: filter set-up raised after login, page load and the click on
\* the date; no slot box was clicked.
C8_Witness ==
    /\ pc = "raised"
    /\ error.msg = "Could not detect Indoors option"
    /\ {"signed_in", "get_cms", "click_date", "click_dropdown"} \subseteq LogOps

\* C9: a dropdown that already displays the requested court type, or the
\* requested duration, is passed over with no click on it or on an option;
\* a dropdown is clicked only when its displayed value differs from the
\* request.
C9_MatchingDropdownNotClicked ==
    [][(pc = "dropdowns" /\ k <= Len(dropdowns)) =>
          /\ dropdowns[k] \in {RequestedCourt, RequestedDuration} =>
                (log' = log /\ pc' = "dropdowns" /\ k' = k + 1 /\ error' = NoError)
          /\ log' # log =>
                /\ dropdowns[k] \notin {RequestedCourt, RequestedDuration}
                /\ log'[Len(log) + 1] = Ev("click_dropdown", k)]_vars

\* C9 witness: the court type and the duration dropdowns both displayed the
\* requested values and the loop has passed both without a click.
C9_Witness ==
    /\ pc = "dropdowns"
    /\ k = 3
    /\ dropdowns[1] = RequestedCourt
    /\ dropdowns[2] = RequestedDuration
    /\ LogOps \cap {"click_dropdown", "click_option"} = {}

\* C10: _login on a logged-in session does nothing and leaves it logged
\* in; the session never goes back to logged out, and becomes logged in
\* only in _login, right after the signed-in element was found.
C10_LoginNoOpAndMonotone ==
    [][/\ (pc = "login" /\ is_logged_in) =>
              (log' = log /\ is_logged_in' /\ error' = error /\ pc' = "goto")
       /\ is_logged_in => is_logged_in'
       /\ (~is_logged_in /\ is_logged_in') =>
              /\ pc = "login"
              /\ pc' = "goto"
              /\ log'[Len(log')] = Ev("signed_in", 0)]_vars

\* C10 witness: a second call on the handler found the session logged in
\* and went on to the booking page without touching the browser.
C10_Witness ==
    /\ runs = 2
    /\ pc = "goto"
    /\ is_logged_in
    /\ log = <<>>

====
